---- MODULE Spec2Model ----
(***************************************************************************)
(* Model of scripts/apptrust_rollback.py: the SemVer parser and            *)
(* comparator, the eligible-version view (get_prod_versions), the          *)
(* successor selector (pick_next_latest) and the rollback orchestration    *)
(* (rollback_in_prod, driven by main) against a registry reached through   *)
(* AppTrustClient.                                                         *)
(*                                                                         *)
(* A Python str is modelled as a sequence of one-character strings, so     *)
(* that parsing, numeric conversion and lexical comparison are computed    *)
(* and not assumed.                                                        *)
(***************************************************************************)
EXTENDS Integers, Sequences, FiniteSets, TLC

VARIABLES
    reg,             \* the registry's rows, as the listing returns them
    regProps,        \* the registry's properties of each version
    regStage,        \* the registry's current_stage of the target version
    target_version,  \* args.version
    dry_run,         \* args.dry_run
    pc,              \* where main and rollback_in_prod stand
    prod_versions,   \* rollback_in_prod's prod_versions
    target,          \* rollback_in_prod's target
    next_candidate,  \* rollback_in_prod's next_candidate
    calls,           \* the requests sent to the registry, in order
    out,             \* the lines printed, in order
    queries,         \* the stage queries attempted, in order
    exit_code,       \* main's return value, -1 while it runs
    error,           \* the message of the exception main caught
    reg0,            \* reg when the run started
    regProps0,       \* regProps when the run started
    run,             \* the number of the run of main against the registry
    given,           \* the strings handed to the version functions
    result           \* what the version function returned

vars == <<reg, regProps, regStage, target_version, dry_run, pc,
          prod_versions, target, next_candidate, calls, out, queries,
          exit_code, error, reg0, regProps0, run, given, result>>

----------------------------------------------------------------------------
(* Characters                                                              *)

Digits == {"0", "1", "2", "3", "4", "5", "6", "7", "8", "9"}

NonZeroDigits == Digits \ {"0"}

\* ARABIC-INDIC DIGIT ONE (U+0661), standing for the decimal digits outside
\* ASCII: \d of a str pattern matches them, str.isdigit() is true of them and
\* int() converts them.
ArabicOne == "U+0661"

\* \d
DecimalDigits == Digits \cup {ArabicOne}

Letters == {"a", "b", "c", "d", "e", "f", "g", "h", "i", "j", "k", "l", "m",
            "n", "o", "p", "q", "r", "s", "t", "u", "v", "w", "x", "y", "z",
            "A", "B", "C", "D", "E", "F", "G", "H", "I", "J", "K", "L", "M",
            "N", "O", "P", "Q", "R", "S", "T", "U", "V", "W", "X", "Y", "Z"}

\* [0-9a-zA-Z-]
IdentChars == Digits \cup Letters \cup {"-"}

\* [a-zA-Z-]
IdentStart == Letters \cup {"-"}

\* \s (the blank is the only white space of the model's alphabet)
Space == {" "}

\* The characters of the model in code-point order: '-' < digits < A-Z < a-z
\* < U+0661.
CodeOrder == <<" ", "+", "-", ".",
               "0", "1", "2", "3", "4", "5", "6", "7", "8", "9",
               "A", "B", "C", "D", "E", "F", "G", "H", "I", "J", "K", "L", "M",
               "N", "O", "P", "Q", "R", "S", "T", "U", "V", "W", "X", "Y", "Z",
               "a", "b", "c", "d", "e", "f", "g", "h", "i", "j", "k", "l", "m",
               "n", "o", "p", "q", "r", "s", "t", "u", "v", "w", "x", "y", "z",
               ArabicOne>>

Code(c) == CHOOSE i \in 1..Len(CodeOrder) : CodeOrder[i] = c

\* int() of one decimal digit
DigitVal(c) == IF c = ArabicOne THEN 1 ELSE Code(c) - Code("0")

\* str < str of Python: lexicographic by code point, a proper prefix is smaller.
RECURSIVE StrLess(_, _)
StrLess(s, t) ==
    IF t = <<>> THEN FALSE
    ELSE IF s = <<>> THEN TRUE
    ELSE IF Head(s) # Head(t) THEN Code(Head(s)) < Code(Head(t))
    ELSE StrLess(Tail(s), Tail(t))

\* str.isdigit(): non-empty and every character a digit.
IsDigit(s) == s # <<>> /\ \A i \in 1..Len(s) : s[i] \in DecimalDigits

\* int(str) of a digit string.
RECURSIVE IntOf(_)
IntOf(s) ==
    IF s = <<>> THEN 0
    ELSE IntOf(SubSeq(s, 1, Len(s) - 1)) * 10 + DigitVal(s[Len(s)])

\* str.split(".")
RECURSIVE SplitDots(_)
SplitDots(s) ==
    IF \A i \in 1..Len(s) : s[i] # "." THEN <<s>>
    ELSE LET k == CHOOSE i \in 1..Len(s) :
                      s[i] = "." /\ \A j \in 1..(i - 1) : s[j] # "."
         IN  <<SubSeq(s, 1, k - 1)>> \o SplitDots(SubSeq(s, k + 1, Len(s)))

----------------------------------------------------------------------------
(* SEMVER_RE, matched left to right.  Each scanner takes the string and a  *)
(* position and returns the position after the longest match of its piece, *)
(* or 0 when the piece does not match there.                               *)

\* the end of the longest run of characters of class cs starting at i
RECURSIVE RunEnd(_, _, _)
RunEnd(s, i, cs) ==
    IF i <= Len(s) /\ s[i] \in cs THEN RunEnd(s, i + 1, cs) ELSE i

\* (?:0|[1-9]\d*)
NumEnd(s, i) ==
    IF i > Len(s) THEN 0
    ELSE IF s[i] = "0" THEN i + 1
    ELSE IF s[i] \in NonZeroDigits THEN RunEnd(s, i + 1, DecimalDigits)
    ELSE 0

\* (?:0|[1-9]\d*|[a-zA-Z-][0-9a-zA-Z-]*)
PreIdEnd(s, i) ==
    IF i > Len(s) THEN 0
    ELSE IF s[i] \in IdentStart THEN RunEnd(s, i + 1, IdentChars)
    ELSE NumEnd(s, i)

\* [0-9a-zA-Z-]+
BuildIdEnd(s, i) ==
    IF i <= Len(s) /\ s[i] \in IdentChars THEN RunEnd(s, i + 1, IdentChars) ELSE 0

\* ident(?:\.ident)* for the prerelease
RECURSIVE PreEnd(_, _)
PreEnd(s, i) ==
    LET e == PreIdEnd(s, i)
    IN  IF e = 0 THEN 0
        ELSE IF e <= Len(s) /\ s[e] = "." THEN PreEnd(s, e + 1)
        ELSE e

\* ident(?:\.ident)* for the build metadata
RECURSIVE BuildEnd(_, _)
BuildEnd(s, i) ==
    LET e == BuildIdEnd(s, i)
    IN  IF e = 0 THEN 0
        ELSE IF e <= Len(s) /\ s[e] = "." THEN BuildEnd(s, e + 1)
        ELSE e

NoMatch == [ok |-> FALSE]

\* SEMVER_RE.match(s), piece by piece: each step scans the next piece from the
\* end of the one before and gives up with NoMatch when it does not match.

\* the position at character c
At(s, i, c) == i <= Len(s) /\ s[i] = c

\* \s*$, and the groups of the match
MatchEnd(s, p1, eMaj, eMin, ePat, ePre, eBld) ==
    IF eBld = 0 \/ RunEnd(s, eBld, Space) # Len(s) + 1 THEN NoMatch
    ELSE [ok |-> TRUE,
          major |-> SubSeq(s, p1, eMaj - 1),
          minor |-> SubSeq(s, eMaj + 1, eMin - 1),
          patch |-> SubSeq(s, eMin + 1, ePat - 1),
          prerelease |-> SubSeq(s, ePat + 1, ePre - 1)]

\* (?:\+(?P<build>...))?
MatchBuild(s, p1, eMaj, eMin, ePat, ePre) ==
    IF ePre = 0 THEN NoMatch
    ELSE IF At(s, ePre, "+")
         THEN MatchEnd(s, p1, eMaj, eMin, ePat, ePre, BuildEnd(s, ePre + 1))
         ELSE MatchEnd(s, p1, eMaj, eMin, ePat, ePre, ePre)

\* (?:-(?P<prerelease>...))?
MatchPre(s, p1, eMaj, eMin, ePat) ==
    IF ePat = 0 THEN NoMatch
    ELSE IF At(s, ePat, "-")
         THEN MatchBuild(s, p1, eMaj, eMin, ePat, PreEnd(s, ePat + 1))
         ELSE MatchBuild(s, p1, eMaj, eMin, ePat, ePat)

\* \.(?P<patch>0|[1-9]\d*)
MatchPatch(s, p1, eMaj, eMin) ==
    IF eMin = 0 \/ ~At(s, eMin, ".") THEN NoMatch
    ELSE MatchPre(s, p1, eMaj, eMin, NumEnd(s, eMin + 1))

\* \.(?P<minor>0|[1-9]\d*)
MatchMinor(s, p1, eMaj) ==
    IF eMaj = 0 \/ ~At(s, eMaj, ".") THEN NoMatch
    ELSE MatchPatch(s, p1, eMaj, NumEnd(s, eMaj + 1))

\* (?P<major>0|[1-9]\d*)
MatchMajor(s, p1) == MatchMinor(s, p1, NumEnd(s, p1))

\* ^\s*v?
MatchPrefix(s, p0) == MatchMajor(s, IF At(s, p0, "v") THEN p0 + 1 ELSE p0)

\* The groups of SEMVER_RE.match(s), or NoMatch.
SemVerMatch(s) == MatchPrefix(s, RunEnd(s, 1, Space))

None == [none |-> TRUE]

\* SemVer.parse
Parse(version) ==
    LET g == SemVerMatch(version)
    IN  IF ~g.ok THEN None
        ELSE [major |-> IntOf(g.major), minor |-> IntOf(g.minor),
              patch |-> IntOf(g.patch),
              prerelease |-> IF g.prerelease # <<>> THEN SplitDots(g.prerelease)
                             ELSE <<>>,
              original |-> version]

Min(a, b) == IF a < b THEN a ELSE b

\* ComparePre with two all-digit identifiers compared as strings.
RECURSIVE ComparePre_Lexical(_, _, _)
ComparePre_Lexical(ap, bp, i) ==
    IF i > Min(Len(ap), Len(bp)) THEN 2
    ELSE LET at == ap[i]
             bt == bp[i]
         IN  IF at = bt THEN ComparePre_Lexical(ap, bp, i + 1)
             ELSE IF IsDigit(at) /\ ~IsDigit(bt) THEN -1
             ELSE IF ~IsDigit(at) /\ IsDigit(bt) THEN 1
             ELSE IF StrLess(at, bt) THEN -1 ELSE 1

\* The for loop of compare_semver over zip(a.prerelease, b.prerelease), from
\* position i: the value it returns, or 2 when it runs to the end.
RECURSIVE ComparePre(_, _, _)
ComparePre(ap, bp, i) ==
    IF i > Min(Len(ap), Len(bp)) THEN 2
    ELSE LET at == ap[i]
             bt == bp[i]
         IN  IF at = bt THEN ComparePre(ap, bp, i + 1)
             ELSE IF IsDigit(at) /\ IsDigit(bt)
                  THEN IF IntOf(at) # IntOf(bt)
                       THEN (IF IntOf(at) < IntOf(bt) THEN -1 ELSE 1)
                       ELSE ComparePre(ap, bp, i + 1)
             ELSE IF IsDigit(at) /\ ~IsDigit(bt) THEN -1
             ELSE IF ~IsDigit(at) /\ IsDigit(bt) THEN 1
             ELSE IF StrLess(at, bt) THEN -1 ELSE 1

compare_semver(a, b) ==
    IF a.major # b.major THEN (IF a.major < b.major THEN -1 ELSE 1)
    ELSE IF a.minor # b.minor THEN (IF a.minor < b.minor THEN -1 ELSE 1)
    ELSE IF a.patch # b.patch THEN (IF a.patch < b.patch THEN -1 ELSE 1)
    ELSE IF a.prerelease = <<>> /\ b.prerelease # <<>> THEN 1
    ELSE IF a.prerelease # <<>> /\ b.prerelease = <<>> THEN -1
    ELSE LET r == ComparePre(a.prerelease, b.prerelease, 1)
         IN  IF r # 2 THEN r
             ELSE IF Len(a.prerelease) # Len(b.prerelease)
                  THEN (IF Len(a.prerelease) < Len(b.prerelease) THEN -1 ELSE 1)
                  ELSE 0

\* SemVer.__lt__
SemVerLt(a, b) == compare_semver(a, b) < 0

\* InsertDesc for an ascending sort: x goes before the first element that is
\* strictly greater than x.
RECURSIVE InsertDesc_Ascending(_, _)
InsertDesc_Ascending(sorted, x) ==
    IF sorted = <<>> THEN <<x>>
    ELSE IF SemVerLt(x.sv, Head(sorted).sv) THEN <<x>> \o sorted
    ELSE <<Head(sorted)>> \o InsertDesc_Ascending(Tail(sorted), x)

\* The insertion step of a stable descending sort of (SemVer, str) pairs:
\* x goes before the first element that is strictly lower than x.
RECURSIVE InsertDesc(_, _)
InsertDesc(sorted, x) ==
    IF sorted = <<>> THEN <<x>>
    ELSE IF SemVerLt(Head(sorted).sv, x.sv) THEN <<x>> \o sorted
    ELSE <<Head(sorted)>> \o InsertDesc(Tail(sorted), x)

\* list.sort(key=lambda t: t[0], reverse=True): stable, decided by __lt__.
RECURSIVE SortDesc(_)
SortDesc(parsed) ==
    IF parsed = <<>> THEN <<>>
    ELSE InsertDesc(SortDesc(SubSeq(parsed, 1, Len(parsed) - 1)), parsed[Len(parsed)])

\* the strings that parse, each paired with its SemVer, in input order
RECURSIVE ParsedPairs(_)
ParsedPairs(version_strings) ==
    IF version_strings = <<>> THEN <<>>
    ELSE LET sv == Parse(Head(version_strings))
         IN  (IF sv # None THEN <<[sv |-> sv, v |-> Head(version_strings)]>> ELSE <<>>)
             \o ParsedPairs(Tail(version_strings))

sort_versions_by_semver_desc(version_strings) ==
    LET sorted == SortDesc(ParsedPairs(version_strings))
    IN  [i \in 1..Len(sorted) |-> sorted[i].v]

----------------------------------------------------------------------------
(* Eligible version view                                                   *)

TRUSTED == "TRUSTED_RELEASE"
RELEASED == "RELEASED"
QUARANTINE_TAG == "quarantine"
LATEST_TAG == "latest"
BACKUP_BEFORE_LATEST == "original_tag_before_latest"
BACKUP_BEFORE_QUARANTINE == "original_tag_before_quarantine"

\* A tag the registry returns as JSON null.
PyNone == "<None>"

\* str.upper() on the release statuses of the model.
Upper(s) ==
    CASE s = "released" -> "RELEASED"
      [] s = "Trusted_Release" -> "TRUSTED_RELEASE"
      [] s = "draft" -> "DRAFT"
      [] OTHER -> s

\* Normalise without the release-status test: every row becomes a record.
Normalise_KeepAll(versions) ==
    [i \in 1..Len(versions) |->
        [version |-> versions[i].version,
         tag |-> IF versions[i].tag = PyNone THEN "" ELSE versions[i].tag,
         release_status |-> Upper(versions[i].release_status)]]

\* The loop of get_prod_versions: the normalised records of the eligible rows.
RECURSIVE Normalise(_)
Normalise(versions) ==
    IF versions = <<>> THEN <<>>
    ELSE LET v == Head(versions)
             tag_str == IF v.tag = PyNone THEN "" ELSE v.tag
             rs == Upper(v.release_status)
         IN  (IF rs \in {TRUSTED, RELEASED}
              THEN <<[version |-> v.version, tag |-> tag_str, release_status |-> rs]>>
              ELSE <<>>)
             \o Normalise(Tail(versions))

\* The sort key of a record: idx.get(version, 10**9), idx being built by a
\* dict comprehension over enumerate(order), so that the last position of a
\* repeated string wins.  Positions are 0-based.
NotInOrder == 1000000000

\* SortKey with 0 as the default of idx.get.
SortKey_DefaultZero(order, ver) ==
    IF \E i \in 1..Len(order) : order[i] = ver
    THEN (CHOOSE i \in 1..Len(order) :
              order[i] = ver /\ \A j \in (i + 1)..Len(order) : order[j] # ver) - 1
    ELSE 0

SortKey(order, ver) ==
    IF \E i \in 1..Len(order) : order[i] = ver
    THEN (CHOOSE i \in 1..Len(order) :
              order[i] = ver /\ \A j \in (i + 1)..Len(order) : order[j] # ver) - 1
    ELSE NotInOrder

\* The insertion step of a stable ascending sort by SortKey.
RECURSIVE InsertByKey(_, _, _)
InsertByKey(sorted, x, order) ==
    IF sorted = <<>> THEN <<x>>
    ELSE IF SortKey(order, x.version) < SortKey(order, Head(sorted).version)
         THEN <<x>> \o sorted
    ELSE <<Head(sorted)>> \o InsertByKey(Tail(sorted), x, order)

RECURSIVE SortByKey(_, _)
SortByKey(norm, order) ==
    IF norm = <<>> THEN <<>>
    ELSE InsertByKey(SortByKey(SubSeq(norm, 1, Len(norm) - 1), order),
                     norm[Len(norm)], order)

\* get_prod_versions without the two sorts: the records in listing order.
get_prod_versions_Unsorted(versions) == Normalise(versions)

\* get_prod_versions applied to the "versions" list of the listing response.
get_prod_versions(versions) ==
    LET norm == Normalise(versions)
        order == sort_versions_by_semver_desc([i \in 1..Len(norm) |-> norm[i].version])
    IN  SortByKey(norm, order)

----------------------------------------------------------------------------
(* Successor selector                                                      *)

\* DupRecords without the quarantine test.
DupRecords_KeepQuarantined(sorted_prod_versions, exclude_version) ==
    LET Keep(v) == v.version # exclude_version
    IN  SelectSeq(sorted_prod_versions, Keep)

\* dup: the records kept by the first loop, those of one version being dup[ver]
DupRecords(sorted_prod_versions, exclude_version) ==
    LET Keep(v) == v.version # exclude_version /\ v.tag # QUARANTINE_TAG
    IN  SelectSeq(sorted_prod_versions, Keep)

\* ordered: the distinct versions of dup in their first-seen order in the list
RECURSIVE OrderedVersions(_, _, _, _)
OrderedVersions(svs, exclude_version, dupKeys, seen) ==
    IF svs = <<>> THEN <<>>
    ELSE LET vv == Head(svs).version
         IN  IF vv # exclude_version /\ vv \in dupKeys /\ vv \notin seen
             THEN <<vv>> \o OrderedVersions(Tail(svs), exclude_version, dupKeys,
                                            seen \cup {vv})
             ELSE OrderedVersions(Tail(svs), exclude_version, dupKeys, seen)

\* pick_next_latest without the preference for TRUSTED_RELEASE.
pick_next_latest_FirstCandidate(sorted_prod_versions, exclude_version) ==
    LET Keep(v) == v.version # exclude_version /\ v.tag # "quarantine"
        kept == SelectSeq(sorted_prod_versions, Keep)
        firstVersions == {kept[i].version : i \in 1..Len(kept)}
        OfFirst(v) == v.version # exclude_version /\ v.version \in firstVersions
        scan == SelectSeq(sorted_prod_versions, OfFirst)
        OfVer(c) == c.version = scan[1].version
    IN  IF kept = <<>> THEN None ELSE SelectSeq(kept, OfVer)[1]

pick_next_latest(sorted_prod_versions, exclude_version) ==
    LET dupAll == DupRecords(sorted_prod_versions, exclude_version)
        dupKeys == {dupAll[i].version : i \in 1..Len(dupAll)}
        ordered == OrderedVersions(sorted_prod_versions, exclude_version, dupKeys, {})
    IN  IF dupAll = <<>> THEN None
        ELSE IF ordered = <<>> THEN None
        ELSE LET ver == ordered[1]
                 OfVer(c) == c.version = ver
                 cands == SelectSeq(dupAll, OfVer)
                 IsTrusted(c) == c.release_status = TRUSTED
                 trusted == SelectSeq(cands, IsTrusted)
             IN  IF trusted # <<>> THEN trusted[1] ELSE cands[1]

----------------------------------------------------------------------------
(* The registry and the client                                             *)

\* The methods class AppTrustClient defines.
AppTrustClientMethods == {"__init__", "_request", "list_application_versions",
                          "patch_application_version",
                          "rollback_application_version"}

\* client.<name> resolves; otherwise the attribute lookup raises AttributeError.
HasMethod(name) == name \in AppTrustClientMethods

\* PatchRequest with the new tag, not the current one, as the backup value.
PatchRequest_BacksUpNewTag(version, backup_prop_key, new_tag, current_tag) ==
    [op |-> "patch", version |-> version, tag |-> new_tag,
     key |-> backup_prop_key, value |-> <<new_tag>>]

\* The body of the PATCH request backup_tag_then_patch sends.
PatchRequest(version, backup_prop_key, new_tag, current_tag) ==
    [op |-> "patch", version |-> version, tag |-> new_tag,
     key |-> backup_prop_key, value |-> <<current_tag>>]

ListRequest == [op |-> "list", version |-> <<>>, tag |-> "", key |-> "", value |-> <<>>]

GetRequest(version) ==
    [op |-> "get", version |-> version, tag |-> "", key |-> "", value |-> <<>>]

\* The body of the POST .../rollback request: {"from_stage": from_stage}.
RollbackRequest(version, from_stage) ==
    [op |-> "rollback", version |-> version, tag |-> "", key |-> "from_stage",
     value |-> <<from_stage>>]

\* A request as the registry's log of the run records it: ok tells whether
\* the call returned or raised.
Sent(req, ok) ==
    [op |-> req.op, version |-> req.version, tag |-> req.tag, key |-> req.key,
     value |-> req.value, ok |-> ok]

\* The registry after a PATCH of a version: the tag of the version's rows is the
\* tag of the body, and each property of the body holds the body's values.
PatchedRows(rows, req) ==
    [i \in 1..Len(rows) |->
        IF rows[i].version = req.version THEN [rows[i] EXCEPT !.tag = req.tag]
        ELSE rows[i]]

PatchedProps(props, req) ==
    [props EXCEPT ![req.version] = [@ EXCEPT ![req.key] = req.value]]

\* by_version.get(target_version): the dict comprehension keeps, for a version
\* with several records, the last one.
ByVersionGet(versions, ver) ==
    IF \E i \in 1..Len(versions) : versions[i].version = ver
    THEN versions[CHOOSE i \in 1..Len(versions) :
                      versions[i].version = ver
                      /\ \A j \in (i + 1)..Len(versions) : versions[j].version # ver]
    ELSE None

\* The stage lifecycle of the fallback after the rollback, and the value the
\* except branch prints: the stage before PROD, UNASSIGNED if there is none.
stages == <<"UNASSIGNED", "bookverse-DEV", "bookverse-QA", "bookverse-STAGING", "PROD">>

\* StageAfterFallback that does not walk the lifecycle.
StageAfterFallback_Unassigned == "UNASSIGNED"

StageAfterFallback ==
    IF \E i \in 1..Len(stages) : stages[i] = "PROD"
    THEN LET idx == (CHOOSE i \in 1..Len(stages) :
                         stages[i] = "PROD" /\ \A j \in 1..(i - 1) : stages[j] # "PROD") - 1
         IN  IF idx > 0 THEN stages[idx] ELSE "UNASSIGNED"
    ELSE "UNASSIGNED"

StageBeforeFallback == "PROD"

\* The stages the registry may leave the target in after a rollback from PROD.
StagesAfterRollback == {"bookverse-STAGING", "UNASSIGNED"}

Line(name, value) == [line |-> name, value |-> value]

----------------------------------------------------------------------------
(* Bounds and input domains                                                *)

MaxRows == 3

\* the runs of main against one registry
MaxRuns == 2

V200 == <<"2", ".", "0", ".", "0">>
V190 == <<"1", ".", "9", ".", "0">>
VBad == <<"1", ".", "9">>

VersionStrings == {V200, V190, VBad}

RegTags == {"", LATEST_TAG, QUARANTINE_TAG}

RegStatuses == {"TRUSTED_RELEASE", "released", "DRAFT"}

RegRows == [version : VersionStrings, tag : RegTags, release_status : RegStatuses]

BackupKeys == {BACKUP_BEFORE_QUARANTINE, BACKUP_BEFORE_LATEST}

SeqsUpTo(S, n) == UNION {[1..k -> S] : k \in 0..n}

----------------------------------------------------------------------------
(* main and rollback_in_prod                                               *)

Init ==
    /\ reg \in SeqsUpTo(RegRows, MaxRows)
    /\ \E prior \in {<<>>, <<"stable">>} :
           regProps = [v \in VersionStrings |-> [k \in BackupKeys |-> prior]]
    /\ reg0 = reg
    /\ regProps0 = regProps
    /\ regStage = "PROD"
    /\ target_version \in VersionStrings
    /\ dry_run \in BOOLEAN
    /\ pc = "start"
    /\ prod_versions = <<>>
    /\ target = None
    /\ next_candidate = None
    /\ calls = <<>>
    /\ out = <<>>
    /\ queries = <<>>
    /\ exit_code = -1
    /\ error = ""
    /\ run = 1
    /\ given = <<>>
    /\ result = None

\* main's except branch: the error is printed and the exit code is 1.
Fail(msg) ==
    /\ pc' = "failed"
    /\ error' = msg
    /\ exit_code' = 1

\* rollback_in_prod up to the target check: the listing, the view, by_version.
ListVersions ==
    /\ pc = "start"
    /\ UNCHANGED <<run, given, result>>
    /\ \E ok \in BOOLEAN :
        /\ calls' = Append(calls, Sent(ListRequest, ok))
        /\ IF ~ok
           THEN /\ Fail("TransportError")
                /\ UNCHANGED <<prod_versions, target>>
           ELSE /\ prod_versions' = get_prod_versions(reg)
                /\ target' = ByVersionGet(prod_versions', target_version)
                /\ IF target' = None
                   THEN Fail("Target version not found in PROD set")
                   ELSE /\ pc' = "stage_before"
                        /\ UNCHANGED <<error, exit_code>>
    /\ UNCHANGED <<reg, regProps, regStage, target_version, dry_run,
                   next_candidate, out, queries, reg0, regProps0>>

\* A stage query, client.get_application_version(app_key, target_version) in
\* a try block: the value printed and whether a request went out.  The lookup
\* of a method the client lacks raises before any request; a request may fail
\* at the transport.  Either exception is caught and the fallback is printed.
StageQuery(served, fallback) ==
    IF HasMethod("get_application_version")
    THEN [sent |-> TRUE, ok |-> served,
          value |-> IF served THEN regStage ELSE fallback]
    ELSE [sent |-> FALSE, ok |-> FALSE, value |-> fallback]

Served == IF HasMethod("get_application_version") THEN BOOLEAN ELSE {FALSE}

\* StageBefore that goes on past the rollback call.
StageBefore_SkipsRollback ==
    /\ pc = "stage_before"
    /\ UNCHANGED <<run, given, result>>
    /\ \E served \in Served :
        LET q == StageQuery(served, StageBeforeFallback)
        IN  /\ queries' = Append(queries, [step |-> "before", sent |-> q.sent, ok |-> q.ok,
                                          value |-> q.value, stage |-> regStage])
            /\ calls' = IF q.sent THEN Append(calls, Sent(GetRequest(target_version), q.ok))
                        ELSE calls
            /\ out' = Append(out, Line("WORKFLOW_STAGE_BEFORE", q.value))
    /\ pc' = "stage_after"
    /\ UNCHANGED <<reg, regProps, regStage, target_version, dry_run,
                   prod_versions, target, next_candidate, exit_code, error,
                   reg0, regProps0>>

StageBefore ==
    /\ pc = "stage_before"
    /\ UNCHANGED <<run, given, result>>
    /\ \E served \in Served :
        LET q == StageQuery(served, StageBeforeFallback)
        IN  /\ queries' = Append(queries, [step |-> "before", sent |-> q.sent, ok |-> q.ok,
                                          value |-> q.value, stage |-> regStage])
            /\ calls' = IF q.sent THEN Append(calls, Sent(GetRequest(target_version), q.ok))
                        ELSE calls
            /\ out' = Append(out, Line("WORKFLOW_STAGE_BEFORE", q.value))
    /\ pc' = "rollback"
    /\ UNCHANGED <<reg, regProps, regStage, target_version, dry_run,
                   prod_versions, target, next_candidate, exit_code, error,
                   reg0, regProps0>>

from_stage == "PROD"

\* Rollback with the exception of the call swallowed: the run goes on.
Rollback_SwallowFailure ==
    /\ pc = "rollback"
    /\ UNCHANGED <<run, given, result>>
    /\ IF dry_run
       THEN /\ out' = Append(out, Line("[DRY-RUN] Would call AppTrust rollback API", from_stage))
            /\ UNCHANGED <<calls, regStage>>
       ELSE \E ok \in BOOLEAN :
                /\ calls' = Append(calls, Sent(RollbackRequest(target_version, from_stage), ok))
                /\ IF ok
                   THEN /\ regStage' \in StagesAfterRollback
                        /\ out' = Append(out, Line("Invoked AppTrust rollback", from_stage))
                   ELSE UNCHANGED <<regStage, out>>
    /\ pc' = "stage_after"
    /\ UNCHANGED <<reg, regProps, target_version, dry_run, prod_versions, target,
                   next_candidate, queries, reg0, regProps0, error, exit_code>>

\* The rollback call, skipped and logged under dry_run; its failure is fatal.
Rollback ==
    /\ pc = "rollback"
    /\ UNCHANGED <<run, given, result>>
    /\ IF dry_run
       THEN /\ out' = Append(out, Line("[DRY-RUN] Would call AppTrust rollback API", from_stage))
            /\ pc' = "stage_after"
            /\ UNCHANGED <<calls, regStage, error, exit_code>>
       ELSE \E ok \in BOOLEAN :
                /\ calls' = Append(calls, Sent(RollbackRequest(target_version, from_stage), ok))
                /\ IF ok
                   THEN /\ regStage' \in StagesAfterRollback
                        /\ out' = Append(out, Line("Invoked AppTrust rollback", from_stage))
                        /\ pc' = "stage_after"
                        /\ UNCHANGED <<error, exit_code>>
                   ELSE /\ Fail("AppTrust rollback API call failed")
                        /\ UNCHANGED <<regStage, out>>
    /\ UNCHANGED <<reg, regProps, target_version, dry_run, prod_versions, target,
                   next_candidate, queries, reg0, regProps0>>

\* StageAfter without the except branch: a failed query ends the run.
StageAfter_Fatal ==
    /\ pc = "stage_after"
    /\ UNCHANGED <<run, given, result>>
    /\ \E served \in Served :
        LET q == StageQuery(served, StageAfterFallback)
        IN  /\ queries' = Append(queries, [step |-> "after", sent |-> q.sent, ok |-> q.ok,
                                          value |-> q.value, stage |-> regStage])
            /\ calls' = IF q.sent THEN Append(calls, Sent(GetRequest(target_version), q.ok))
                        ELSE calls
            /\ IF q.ok
               THEN /\ out' = Append(out, Line("WORKFLOW_STAGE_AFTER", q.value))
                    /\ pc' = "quarantine"
                    /\ UNCHANGED <<error, exit_code>>
               ELSE /\ Fail("TransportError")
                    /\ UNCHANGED out
    /\ UNCHANGED <<reg, regProps, regStage, target_version, dry_run,
                   prod_versions, target, next_candidate, reg0, regProps0>>

StageAfter ==
    /\ pc = "stage_after"
    /\ UNCHANGED <<run, given, result>>
    /\ \E served \in Served :
        LET q == StageQuery(served, StageAfterFallback)
        IN  /\ queries' = Append(queries, [step |-> "after", sent |-> q.sent, ok |-> q.ok,
                                          value |-> q.value, stage |-> regStage])
            /\ calls' = IF q.sent THEN Append(calls, Sent(GetRequest(target_version), q.ok))
                        ELSE calls
            /\ out' = Append(out, Line("WORKFLOW_STAGE_AFTER", q.value))
    /\ pc' = "quarantine"
    /\ UNCHANGED <<reg, regProps, regStage, target_version, dry_run,
                   prod_versions, target, next_candidate, exit_code, error,
                   reg0, regProps0>>

\* backup_tag_then_patch: under dry_run the request is printed, otherwise it is
\* sent; when the call returns rollback_in_prod continues at then_pc and prints
\* then_out.
backup_tag_then_patch(version, backup_prop_key, new_tag, current_tag, then_pc, then_out) ==
    LET req == PatchRequest(version, backup_prop_key, new_tag, current_tag)
    IN  IF dry_run
        THEN /\ out' = Append(out, Line("[DRY-RUN] PATCH backup+tag", new_tag)) \o then_out
             /\ pc' = then_pc
             /\ UNCHANGED <<calls, reg, regProps, error>>
        ELSE \E ok \in BOOLEAN :
                 /\ calls' = Append(calls, Sent(req, ok))
                 /\ IF ok
                    THEN /\ reg' = PatchedRows(reg, req)
                         /\ regProps' = PatchedProps(regProps, req)
                         /\ pc' = then_pc
                         /\ out' = out \o then_out
                         /\ UNCHANGED error
                    ELSE /\ pc' = "failed"
                         /\ error' = "TransportError"
                         /\ UNCHANGED <<reg, regProps, out>>

\* Quarantine that leaves a target already tagged quarantine alone.
Quarantine_SkipsQuarantined ==
    /\ pc = "quarantine"
    /\ UNCHANGED <<run, given, result>>
    /\ IF target.tag = QUARANTINE_TAG
       THEN /\ pc' = "reassign"
            /\ UNCHANGED <<calls, reg, regProps, error, out>>
       ELSE backup_tag_then_patch(target_version, BACKUP_BEFORE_QUARANTINE,
                                  QUARANTINE_TAG, target.tag, "reassign", <<>>)
    /\ exit_code' = IF pc' = "failed" THEN 1 ELSE exit_code
    /\ UNCHANGED <<regStage, target_version, dry_run, prod_versions, target,
                   next_candidate, queries, reg0, regProps0>>

\* current_tag, had_latest and the quarantine of the target.
Quarantine ==
    /\ pc = "quarantine"
    /\ UNCHANGED <<run, given, result>>
    /\ backup_tag_then_patch(target_version, BACKUP_BEFORE_QUARANTINE, QUARANTINE_TAG,
                             target.tag, "reassign", <<>>)
    /\ exit_code' = IF pc' = "failed" THEN 1 ELSE exit_code
    /\ UNCHANGED <<regStage, target_version, dry_run, prod_versions, target,
                   next_candidate, queries, reg0, regProps0>>

\* had_latest true of every target.
had_latest_Always == target # None

had_latest == target # None /\ target.tag = LATEST_TAG

\* Reassign with the target's tag, not the candidate's, backed up for the
\* candidate.
Reassign_BacksUpTargetTag ==
    /\ pc = "reassign"
    /\ UNCHANGED <<run, given, result>>
    /\ IF had_latest
       THEN /\ next_candidate' = pick_next_latest(prod_versions, target_version)
            /\ IF next_candidate' = None
               THEN /\ out' = Append(out, Line("No successor found for latest", ""))
                    /\ pc' = "done"
                    /\ exit_code' = 0
                    /\ UNCHANGED <<calls, reg, regProps, error>>
               ELSE /\ backup_tag_then_patch(next_candidate'.version, BACKUP_BEFORE_LATEST,
                                            LATEST_TAG, target.tag, "done",
                                            <<Line("Reassigned latest to", "")>>)
                    /\ exit_code' = IF pc' = "failed" THEN 1 ELSE 0
       ELSE /\ out' = Append(out, Line("Rolled back non-latest version; 'latest' unchanged", ""))
            /\ pc' = "done"
            /\ exit_code' = 0
            /\ UNCHANGED <<calls, reg, regProps, error, next_candidate>>
    /\ UNCHANGED <<regStage, target_version, dry_run, prod_versions, target, queries,
                   reg0, regProps0>>

\* Reassign with a compensating call: when the patch of the successor fails,
\* the tag of the target is put back before the run ends in failure.
Reassign_RevertsQuarantine ==
    /\ pc = "reassign"
    /\ UNCHANGED <<run, given, result>>
    /\ IF had_latest
       THEN /\ next_candidate' = pick_next_latest(prod_versions, target_version)
            /\ IF next_candidate' = None
               THEN /\ out' = Append(out, Line("No successor found for latest", ""))
                    /\ pc' = "done"
                    /\ exit_code' = 0
                    /\ UNCHANGED <<calls, reg, regProps, error>>
               ELSE IF dry_run
               THEN /\ backup_tag_then_patch(next_candidate'.version, BACKUP_BEFORE_LATEST,
                                            LATEST_TAG, next_candidate'.tag, "done",
                                            <<Line("Reassigned latest to", "")>>)
                    /\ exit_code' = 0
               ELSE LET req == PatchRequest(next_candidate'.version, BACKUP_BEFORE_LATEST,
                                            LATEST_TAG, next_candidate'.tag)
                        undo == PatchRequest(target_version, BACKUP_BEFORE_QUARANTINE,
                                             target.tag, QUARANTINE_TAG)
                    IN  \E ok \in BOOLEAN :
                            IF ok
                            THEN /\ calls' = Append(calls, Sent(req, TRUE))
                                 /\ reg' = PatchedRows(reg, req)
                                 /\ regProps' = PatchedProps(regProps, req)
                                 /\ out' = Append(out, Line("Reassigned latest to", ""))
                                 /\ pc' = "done"
                                 /\ exit_code' = 0
                                 /\ UNCHANGED error
                            ELSE /\ calls' = Append(Append(calls, Sent(req, FALSE)),
                                                    Sent(undo, TRUE))
                                 /\ reg' = PatchedRows(reg, undo)
                                 /\ regProps' = PatchedProps(regProps, undo)
                                 /\ pc' = "failed"
                                 /\ error' = "TransportError"
                                 /\ exit_code' = 1
                                 /\ UNCHANGED out
       ELSE /\ out' = Append(out, Line("Rolled back non-latest version; 'latest' unchanged", ""))
            /\ pc' = "done"
            /\ exit_code' = 0
            /\ UNCHANGED <<calls, reg, regProps, error, next_candidate>>
    /\ UNCHANGED <<regStage, target_version, dry_run, prod_versions, target, queries,
                   reg0, regProps0>>

\* The rest of rollback_in_prod after the quarantine, and main's return.
Reassign ==
    /\ pc = "reassign"
    /\ UNCHANGED <<run, given, result>>
    /\ IF had_latest
       THEN /\ next_candidate' = pick_next_latest(prod_versions, target_version)
            /\ IF next_candidate' = None
               THEN /\ out' = Append(out, Line("No successor found for latest", ""))
                    /\ pc' = "done"
                    /\ exit_code' = 0
                    /\ UNCHANGED <<calls, reg, regProps, error>>
               ELSE /\ backup_tag_then_patch(next_candidate'.version, BACKUP_BEFORE_LATEST,
                                            LATEST_TAG, next_candidate'.tag, "done",
                                            <<Line("Reassigned latest to", "")>>)
                    /\ exit_code' = IF pc' = "failed" THEN 1 ELSE 0
       ELSE /\ out' = Append(out, Line("Rolled back non-latest version; 'latest' unchanged", ""))
            /\ pc' = "done"
            /\ exit_code' = 0
            /\ UNCHANGED <<calls, reg, regProps, error, next_candidate>>
    /\ UNCHANGED <<regStage, target_version, dry_run, prod_versions, target, queries,
                   reg0, regProps0>>

\* main is started again, with the same arguments, against the registry as
\* a completed non-dry run left it: nothing of the first run is kept but what
\* the registry holds.
Rerun ==
    /\ pc = "done"
    /\ ~dry_run
    /\ run < MaxRuns
    /\ run' = run + 1
    /\ pc' = "start"
    /\ prod_versions' = <<>>
    /\ target' = None
    /\ next_candidate' = None
    /\ calls' = <<>>
    /\ out' = <<>>
    /\ queries' = <<>>
    /\ exit_code' = -1
    /\ error' = ""
    /\ reg0' = reg
    /\ regProps0' = regProps
    /\ UNCHANGED <<reg, regProps, regStage, target_version, dry_run, given, result>>

Next ==
    \/ ListVersions
    \/ StageBefore
    \/ Rollback
    \/ StageAfter
    \/ Quarantine
    \/ Reassign
    \/ Rerun

Spec == Init /\ [][Next]_vars

----------------------------------------------------------------------------
(* Vocabulary of the properties                                            *)

Last(seq) == seq[Len(seq)]

\* the least of a non-empty set of positions
MinOf(S) == CHOOSE i \in S : \A j \in S : i <= j

\* the positions of the requests of one kind among the requests sent
CallsOf(op) == {i \in 1..Len(calls) : calls[i].op = op}

MutatingCalls == CallsOf("rollback") \cup CallsOf("patch")

\* a row of the registry that belongs to the eligible set
Eligible(row) == Upper(row.release_status) \in {TRUSTED, RELEASED}

\* the target version has no record in the eligible set
TargetAbsent ==
    ~ \E i \in 1..Len(reg0) :
          reg0[i].version = target_version /\ Eligible(reg0[i])

\* the tags the rows of a version carry in a registry
TagsOf(rows, ver) == {rows[i].tag : i \in {j \in 1..Len(rows) : rows[j].version = ver}}

\* the versions of which some row carries a tag
Holders(rows, tag) == {rows[i].version : i \in {j \in 1..Len(rows) : rows[j].tag = tag}}

\* the lines of one name among the lines printed
LinesOf(name) == {i \in 1..Len(out) : out[i].line = name}

RunEnded == pc \in {"done", "failed"}

----------------------------------------------------------------------------
(* C1: when the target version has no record in the eligible set, the run  *)
(* fails with an error (exit code 1, never a normal completion) and no     *)
(* rollback call and no patch call is issued at any point of the run.      *)

C1_AbsentTargetFailsBeforeMutation ==
    TargetAbsent =>
        /\ MutatingCalls = {}
        /\ pc \in {"start", "failed"}
        /\ pc = "failed" => exit_code = 1 /\ error # ""
        /\ reg = reg0 /\ regProps = regProps0

\* the target has a row in the listing, but not an eligible one, and the run
\* has ended on the target check
C1_Witness ==
    /\ TargetAbsent
    /\ \E i \in 1..Len(reg0) : reg0[i].version = target_version
    /\ ~dry_run
    /\ pc = "failed"
    /\ error = "Target version not found in PROD set"
    /\ Len(calls) = 1

(* C2: in a dry run no rollback call and no patch call is issued, and the  *)
(* two read-only stage queries, before and after the simulated rollback,   *)
(* are still sent to the registry.                                         *)

C2_DryRunQueriesButNoMutation ==
    (dry_run /\ pc = "done") =>
        /\ MutatingCalls = {}
        /\ Len(queries) = 2
        /\ \A i \in 1..Len(queries) : queries[i].sent
        /\ Cardinality(CallsOf("get")) = 2

(* C3: when the rollback call of a non-dry run fails, the run ends with an *)
(* error, the rollback call was issued exactly once, no patch call is      *)
(* issued and every tag and property of the registry is as it was.         *)

RollbackFailed == \E i \in CallsOf("rollback") : ~calls[i].ok

C3_RollbackFailureIsFatal ==
    RollbackFailed =>
        /\ ~dry_run
        /\ pc = "failed" /\ exit_code = 1
        /\ error = "AppTrust rollback API call failed"
        /\ Cardinality(CallsOf("rollback")) = 1
        /\ CallsOf("patch") = {}
        /\ Last(calls).op = "rollback"
        /\ LinesOf("WORKFLOW_STAGE_AFTER") = {}
        /\ reg = reg0 /\ regProps = regProps0

C3_Witness ==
    /\ RollbackFailed
    /\ pc = "failed"
    /\ target.tag = LATEST_TAG
    /\ pick_next_latest(prod_versions, target_version) # None

(* C4: after a non-dry run in which every call succeeded, the target was  *)
(* tagged latest and the selector returned a successor: every row of the   *)
(* target is tagged quarantine and its before-quarantine backup holds      *)
(* latest, every row of the successor is tagged latest and its             *)
(* before-latest backup holds the tag of the successor's record, no other  *)
(* version's row or property is changed; and the versions holding latest   *)
(* are those that held it before, less the target, plus the successor, so  *)
(* that exactly one version holds latest when no version other than the    *)
(* target held it before the run.                                          *)

ReassignedRun ==
    /\ pc = "done"
    /\ ~dry_run
    /\ target.tag = LATEST_TAG
    /\ next_candidate # None

C4_Effects ==
    LET succ == next_candidate.version
    IN  /\ succ # target_version
        /\ TagsOf(reg, target_version) = {QUARANTINE_TAG}
        /\ regProps[target_version][BACKUP_BEFORE_QUARANTINE] = <<LATEST_TAG>>
        /\ TagsOf(reg, succ) = {LATEST_TAG}
        /\ regProps[succ][BACKUP_BEFORE_LATEST] = <<next_candidate.tag>>
        /\ next_candidate.tag \in TagsOf(reg0, succ)
        /\ Len(reg) = Len(reg0)
        /\ \A i \in 1..Len(reg) :
               reg[i].version \notin {target_version, succ} => reg[i] = reg0[i]
        /\ \A v \in VersionStrings \ {target_version, succ} : regProps[v] = regProps0[v]

C4_ReassignMovesLatest ==
    ReassignedRun =>
        /\ C4_Effects
        /\ Holders(reg, LATEST_TAG) =
               (Holders(reg0, LATEST_TAG) \ {target_version}) \cup {next_candidate.version}
        /\ Holders(reg0, LATEST_TAG) \subseteq {target_version}
               => Cardinality(Holders(reg, LATEST_TAG)) = 1

\* the claim as stated: exactly one version holds latest after any such run
C4_ExactlyOneLatestAfterwards ==
    ReassignedRun =>
        /\ C4_Effects
        /\ Cardinality(Holders(reg, LATEST_TAG)) = 1

\* three versions: the target, the successor with an earlier backup, a bystander
C4_Witness ==
    /\ ReassignedRun
    /\ Holders(reg0, LATEST_TAG) = {target_version}
    /\ Cardinality(Holders(reg, LATEST_TAG)) = 1
    /\ Cardinality({reg[i].version : i \in 1..Len(reg)}) = 3
    /\ regProps0[next_candidate.version][BACKUP_BEFORE_LATEST] = <<"stable">>

(* C5: in a non-dry run whose calls all succeed, a patch is issued on a    *)
(* version other than the target exactly when the target's record is       *)
(* tagged latest and an eligible record of another version is not tagged   *)
(* quarantine; otherwise the only patch is the quarantine patch of the     *)
(* target, the run ends normally (exit code 0, no error) and reports       *)
(* "latest unchanged", respectively "no successor".                        *)

ExistsCandidate ==
    \E i \in 1..Len(reg0) :
        /\ Eligible(reg0[i])
        /\ reg0[i].version # target_version
        /\ reg0[i].tag # QUARANTINE_TAG

C5_SuccessorPatchedIffLatestAndCandidate ==
    (pc = "done" /\ ~dry_run) =>
        LET patches == CallsOf("patch")
            onOthers == {i \in patches : calls[i].version # target_version}
            moves == target.tag = LATEST_TAG /\ ExistsCandidate
        IN  /\ (onOthers # {}) <=> moves
            /\ exit_code = 0 /\ error = ""
            /\ ~moves =>
                /\ Cardinality(patches) = 1
                /\ \A i \in patches :
                       /\ calls[i].version = target_version
                       /\ calls[i].tag = QUARANTINE_TAG
                /\ Holders(reg, LATEST_TAG) = Holders(reg0, LATEST_TAG) \ {target_version}
                /\ IF target.tag = LATEST_TAG
                   THEN Last(out).line = "No successor found for latest"
                   ELSE Last(out).line = "Rolled back non-latest version; 'latest' unchanged"

\* the target held latest and every other eligible record is quarantined
C5_Witness ==
    /\ pc = "done" /\ ~dry_run
    /\ target.tag = LATEST_TAG
    /\ ~ExistsCandidate
    /\ Len(prod_versions) >= 2
    /\ Cardinality(CallsOf("patch")) = 1
    /\ Holders(reg, LATEST_TAG) = {}

(* C6: in a non-dry run every patch that overwrites a version's tag        *)
(* (quarantine on the target, latest on the successor) leaves that         *)
(* version's dedicated backup property holding exactly one value, the tag  *)
(* of the version's record, which is a tag the version held in the         *)
(* registry right before the patch; whatever the property held before is   *)
(* gone, and no other property is touched.                                 *)

PatchApplied ==
    /\ Len(calls') = Len(calls) + 1
    /\ calls'[Len(calls')].op = "patch"
    /\ pc' # "failed"

C6_BackupBeforeMutate ==
    [][PatchApplied =>
        LET r == calls'[Len(calls')]
            backup == regProps'[r.version][r.key]
        IN  /\ ~dry_run
            /\ r.tag \in {QUARANTINE_TAG, LATEST_TAG}
            /\ r.key = IF r.tag = QUARANTINE_TAG THEN BACKUP_BEFORE_QUARANTINE
                       ELSE BACKUP_BEFORE_LATEST
            /\ Len(backup) = 1
            /\ backup[1] \in TagsOf(reg, r.version)
            /\ backup[1] = IF r.tag = QUARANTINE_TAG THEN target.tag
                           ELSE next_candidate'.tag
            /\ TagsOf(reg', r.version) = {r.tag}
            /\ \A v \in VersionStrings : \A k \in BackupKeys :
                   (v # r.version \/ k # r.key) => regProps'[v][k] = regProps[v][k]
      ]_vars

\* both patches replaced an earlier backup value
C6_Witness ==
    /\ pc = "done" /\ ~dry_run
    /\ next_candidate # None
    /\ regProps0[target_version][BACKUP_BEFORE_QUARANTINE] = <<"stable">>
    /\ regProps[target_version][BACKUP_BEFORE_QUARANTINE] = <<LATEST_TAG>>
    /\ regProps[next_candidate.version][BACKUP_BEFORE_LATEST] = <<"">>
    /\ regProps[next_candidate.version][BACKUP_BEFORE_QUARANTINE] = <<"stable">>

(* C7: a stage query that fails never ends the run: each attempted query   *)
(* has its WORKFLOW_STAGE_ line printed, a run that fails fails on the     *)
(* listing, the target check, the rollback call or a patch, and a non-dry  *)
(* run whose other calls succeed still issues the rollback call and the    *)
(* quarantine patch after failed queries.                                  *)

FailedQueries == {i \in 1..Len(queries) : ~queries[i].ok}

C7_StageQueryFailureNotFatal ==
    /\ Len(queries) >= 1 => Cardinality(LinesOf("WORKFLOW_STAGE_BEFORE")) = 1
    /\ Len(queries) = 2 => Cardinality(LinesOf("WORKFLOW_STAGE_AFTER")) = 1
    /\ pc = "failed" =>
           /\ calls # <<>>
           /\ Last(calls).op \in {"list", "rollback", "patch"}
           /\ \/ ~Last(calls).ok
              \/ Last(calls).op = "list" /\ target = None
    /\ (FailedQueries # {} /\ pc \in {"reassign", "done"} /\ ~dry_run) =>
           /\ Cardinality(CallsOf("rollback")) = 1
           /\ \E i \in CallsOf("patch") :
                  calls[i].version = target_version /\ calls[i].tag = QUARANTINE_TAG
    /\ (Len(queries) >= 1 /\ ~queries[1].ok) =>
           pc \in {"rollback", "stage_after", "quarantine", "reassign", "done"}
           \/ (pc = "failed" /\ Last(calls).op \in {"rollback", "patch"} /\ ~Last(calls).ok)

\* both queries failed and the run went on to quarantine the target
C7_Witness ==
    /\ pc = "done" /\ ~dry_run
    /\ Len(queries) = 2
    /\ FailedQueries = {1, 2}
    /\ out[1] = Line("WORKFLOW_STAGE_BEFORE", StageBeforeFallback)
    /\ TagsOf(reg, target_version) = {QUARANTINE_TAG}

(* C14: a second non-dry run that completes against a target the first run *)
(* quarantined leaves the tag of every version as the first run left it    *)
(* (the target stays quarantine, latest is not reassigned again), and      *)
(* leaves the target's before-quarantine backup holding the one tag the    *)
(* target has at that moment, quarantine, in place of what it held.        *)

SecondRunDone == run = 2 /\ pc = "done"

C14_RerunKeepsTagsOverwritesBackup ==
    SecondRunDone =>
        /\ ~dry_run
        /\ TagsOf(reg0, target_version) = {QUARANTINE_TAG}
        /\ reg = reg0
        /\ regProps = [regProps0 EXCEPT
                          ![target_version][BACKUP_BEFORE_QUARANTINE] = <<QUARANTINE_TAG>>]
        /\ Cardinality(CallsOf("patch")) = 1
        /\ \A i \in CallsOf("patch") :
               /\ calls[i].version = target_version
               /\ calls[i].tag = QUARANTINE_TAG
               /\ calls[i].value = <<QUARANTINE_TAG>>
        /\ next_candidate = None
        /\ exit_code = 0

\* the first run moved latest to a successor and backed latest up for the
\* target; the second run replaced that backup
C14_Witness ==
    /\ SecondRunDone
    /\ regProps0[target_version][BACKUP_BEFORE_QUARANTINE] = <<LATEST_TAG>>
    /\ regProps[target_version][BACKUP_BEFORE_QUARANTINE] = <<QUARANTINE_TAG>>
    /\ Holders(reg, LATEST_TAG) # {}
    /\ \E v \in VersionStrings \ {target_version} :
           regProps[v][BACKUP_BEFORE_LATEST] = <<"">>

(* C15: when the quarantine patch of the target succeeded and the latest   *)
(* patch of the successor fails, the run ends in failure and that failed   *)
(* patch is its last call; the target stays tagged quarantine with its     *)
(* backup property set, and the tag and the properties of the successor    *)
(* are as they were before the run.                                        *)

\* the positions of the latest patches that failed
FailedLatestPatches ==
    {i \in CallsOf("patch") : calls[i].tag = LATEST_TAG /\ ~calls[i].ok}

C15_NoCompensationOnPartialFailure ==
    FailedLatestPatches # {} =>
        /\ FailedLatestPatches = {Len(calls)}
        /\ pc = "failed" /\ exit_code = 1 /\ error # ""
        /\ next_candidate # None
        /\ Last(calls).version = next_candidate.version
        /\ next_candidate.version # target_version
        /\ \E i \in CallsOf("patch") :
               /\ i < Len(calls)
               /\ calls[i].ok
               /\ calls[i].version = target_version
               /\ calls[i].tag = QUARANTINE_TAG
        /\ TagsOf(reg, target_version) = {QUARANTINE_TAG}
        /\ regProps[target_version][BACKUP_BEFORE_QUARANTINE] = <<LATEST_TAG>>
        /\ \A i \in 1..Len(reg) :
               reg[i].version # target_version => reg[i] = reg0[i]
        /\ \A v \in VersionStrings \ {target_version} : regProps[v] = regProps0[v]

\* the successor had a tag and a backup of its own, both still in place
C15_Witness ==
    /\ FailedLatestPatches # {}
    /\ pc = "failed"
    /\ regProps0[target_version][BACKUP_BEFORE_QUARANTINE] = <<"stable">>
    /\ regProps[next_candidate.version][BACKUP_BEFORE_LATEST] = <<"stable">>
    /\ TagsOf(reg, next_candidate.version) = {""}
    /\ Holders(reg, LATEST_TAG) = {}

(* C16: a stage query reaches the registry; when the registry serves it,   *)
(* the WORKFLOW_STAGE_BEFORE line, respectively the WORKFLOW_STAGE_AFTER    *)
(* line, carries the stage the registry holds for the target at that       *)
(* moment, and a fallback value is printed only for a query that failed at *)
(* the transport.                                                          *)

C16_StageLinesCarryRegistryStage ==
    \A i \in 1..Len(queries) :
        /\ queries[i].sent
        /\ queries[i].ok => queries[i].value = queries[i].stage
        /\ ~queries[i].ok =>
               \E j \in CallsOf("get") : ~calls[j].ok

(* C19: when the stage query before the rollback fails the line printed is *)
(* WORKFLOW_STAGE_BEFORE=PROD; when the stage query after the rollback     *)
(* fails the value of WORKFLOW_STAGE_AFTER is the entry before PROD in the *)
(* lifecycle UNASSIGNED, bookverse-DEV, bookverse-QA, bookverse-STAGING,   *)
(* PROD, that is bookverse-STAGING.                                        *)

\* the line printed for the i-th stage query
StageLineOf(i) ==
    IF queries[i].step = "before" THEN out[MinOf(LinesOf("WORKFLOW_STAGE_BEFORE"))]
    ELSE out[MinOf(LinesOf("WORKFLOW_STAGE_AFTER"))]

FallbackLines(before, after) ==
    \A i \in FailedQueries :
        /\ queries[i].step = (IF i = 1 THEN "before" ELSE "after")
        /\ StageLineOf(i) = IF i = 1 THEN Line("WORKFLOW_STAGE_BEFORE", before)
                            ELSE Line("WORKFLOW_STAGE_AFTER", after)

C19_FallbackStageValues ==
    /\ FallbackLines("PROD", "bookverse-STAGING")
    /\ \E k \in 2..Len(stages) :
           stages[k] = "PROD" /\ stages[k - 1] = "bookverse-STAGING"

\* the claim as stated: the value after a failed query is STAGING
C19_FallbackAfterIsStaging == FallbackLines("PROD", "STAGING")

\* both queries of a non-dry run failed after the registry had moved the
\* target to UNASSIGNED
C19_Witness ==
    /\ pc = "done" /\ ~dry_run
    /\ FailedQueries = {1, 2}
    /\ regStage = "UNASSIGNED"
    /\ out[1] = Line("WORKFLOW_STAGE_BEFORE", "PROD")
    /\ \E i \in 1..Len(out) : out[i] = Line("WORKFLOW_STAGE_AFTER", "bookverse-STAGING")

(* C18: in a non-dry run the events occur in this order, each at most once *)
(* per run: the version listing, the WORKFLOW_STAGE_BEFORE line, the       *)
(* rollback call, the WORKFLOW_STAGE_AFTER line, the quarantine patch of   *)
(* the target, the latest patch of the successor.  No patch is issued      *)
(* before the rollback call has returned, and the successor is not patched *)
(* before the target is quarantined.                                       *)

PatchesOf(tag) == {i \in CallsOf("patch") : calls[i].tag = tag}

\* at most one element
AtMostOne(S) == \A i \in S : \A j \in S : i = j

EventCount ==
    Cardinality(CallsOf("list")) + Cardinality(LinesOf("WORKFLOW_STAGE_BEFORE"))
    + Cardinality(CallsOf("rollback")) + Cardinality(LinesOf("WORKFLOW_STAGE_AFTER"))
    + Cardinality(CallsOf("patch"))

\* every kind of event at most once, none without a successful one of the
\* kind before
EventsInOrder ==
    LET listing == CallsOf("list")
        before == LinesOf("WORKFLOW_STAGE_BEFORE")
        rollback == CallsOf("rollback")
        after == LinesOf("WORKFLOW_STAGE_AFTER")
        quarantine == PatchesOf(QUARANTINE_TAG)
        latest == PatchesOf(LATEST_TAG)
    IN  /\ AtMostOne(listing) /\ AtMostOne(before) /\ AtMostOne(rollback)
        /\ AtMostOne(after) /\ AtMostOne(quarantine) /\ AtMostOne(latest)
        /\ before # {} => listing # {} /\ \A i \in listing : calls[i].ok
        /\ rollback # {} => before # {}
        /\ after # {} => rollback # {} /\ \A i \in rollback : calls[i].ok
        /\ quarantine # {} => after # {}
        /\ latest # {} => quarantine # {}
        /\ CallsOf("patch") = quarantine \cup latest
        /\ \A i \in quarantine :
               /\ calls[i].version = target_version
               /\ \E j \in rollback : j < i /\ calls[j].ok
        /\ \A i \in latest :
               /\ calls[i].version # target_version
               /\ \E j \in quarantine : j < i /\ calls[j].ok

\* every step of a non-dry run adds at most one event and leaves the events
\* in order
C18_EventOrder ==
    [][~dry_run => (EventsInOrder' /\ EventCount' <= EventCount + 1)]_vars

\* a run that went through all six events
C18_Witness ==
    /\ pc = "done" /\ ~dry_run
    /\ EventCount = 6
    /\ [i \in 1..Len(calls) |-> calls[i].op] = <<"list", "rollback", "patch", "patch">>
    /\ calls[3].tag = QUARANTINE_TAG /\ calls[4].tag = LATEST_TAG

(* C20: whenever a record of the target version carries the tag latest in  *)
(* the eligible set as listed before the rollback, also when the listing   *)
(* has several records of the target and only some are tagged latest, the  *)
(* run sets had_latest, backs latest up as the target's tag, and selects   *)
(* the successor over the eligible set as listed before the rollback.      *)

TargetHoldsLatest ==
    \E i \in 1..Len(reg0) :
        /\ reg0[i].version = target_version
        /\ Eligible(reg0[i])
        /\ reg0[i].tag = LATEST_TAG

C20_HadLatestWithDuplicates ==
    (TargetHoldsLatest /\ ~dry_run /\ pc \in {"reassign", "done"}) =>
        /\ had_latest
        /\ regProps[target_version][BACKUP_BEFORE_QUARANTINE] = <<LATEST_TAG>>
        /\ pc = "done" =>
               next_candidate = pick_next_latest(get_prod_versions(reg0), target_version)

----------------------------------------------------------------------------
(* pick_next_latest on its own: any list of eligible records, any excluded *)
(* version.                                                                *)

MaxPick == 3

PickRows == [version : VersionStrings, tag : RegTags, release_status : {TRUSTED, RELEASED}]

\* the variables of a run of main, which these specifications leave alone
IdleRun ==
    /\ regProps = [v \in VersionStrings |-> [k \in BackupKeys |-> <<>>]]
    /\ regProps0 = regProps
    /\ regStage = "PROD"
    /\ dry_run = TRUE
    /\ target = None
    /\ calls = <<>>
    /\ out = <<>>
    /\ queries = <<>>
    /\ exit_code = -1
    /\ error = ""
    /\ run = 1

InitPick ==
    /\ IdleRun
    /\ reg = <<>>
    /\ reg0 = <<>>
    /\ prod_versions \in SeqsUpTo(PickRows, MaxPick)
    /\ target_version \in VersionStrings
    /\ next_candidate = None
    /\ given = <<>>
    /\ result = None
    /\ pc = "pick"

PickStep ==
    /\ pc = "pick"
    /\ UNCHANGED <<run, given, result>>
    /\ next_candidate' = pick_next_latest(prod_versions, target_version)
    /\ pc' = "picked"
    /\ UNCHANGED <<reg, regProps, regStage, target_version, dry_run, prod_versions,
                   target, calls, out, queries, exit_code, error, reg0, regProps0>>

SpecPick == InitPick /\ [][PickStep]_vars

(* C8: the record pick_next_latest returns, if any, is of a version other  *)
(* than the excluded one and is not tagged quarantine; it returns none     *)
(* exactly when every record of another version than the excluded one is   *)
(* tagged quarantine (or there is no such record).                         *)

C8_PickNeverExcludedNorQuarantined ==
    pc = "picked" =>
        /\ next_candidate # None =>
               /\ next_candidate.version # target_version
               /\ next_candidate.tag # QUARANTINE_TAG
               /\ \E i \in 1..Len(prod_versions) : prod_versions[i] = next_candidate
        /\ next_candidate = None <=>
               \A i \in 1..Len(prod_versions) :
                   prod_versions[i].version # target_version
                       => prod_versions[i].tag = QUARANTINE_TAG

\* none is returned although records of other versions exist: all quarantined
C8_Witness ==
    /\ pc = "picked"
    /\ next_candidate = None
    /\ Len(prod_versions) = 3
    /\ prod_versions[1].version = target_version
    /\ prod_versions[2].version # target_version
    /\ prod_versions[3].version \notin {target_version, prod_versions[2].version}

(* C9: with duplicate records the result belongs to the first version      *)
(* string of the list, in list order, that is not the excluded one and     *)
(* still has a record not tagged quarantine; among that version's records  *)
(* not tagged quarantine it is the first TRUSTED_RELEASE one if there is   *)
(* one, otherwise the first.  A quarantine-tagged duplicate is never       *)
(* returned, even when it is the only TRUSTED_RELEASE record.              *)

\* the positions of the records that survive the two drops
Remaining(list, exclude) ==
    {i \in 1..Len(list) : list[i].version # exclude /\ list[i].tag # QUARANTINE_TAG}

\* the record the claim describes, for a list with a surviving record
ExpectedPick(list, exclude) ==
    LET rem == Remaining(list, exclude)
        live == {list[i].version : i \in rem}
        first == MinOf({i \in 1..Len(list) : list[i].version \in live})
        ofFirst == {i \in rem : list[i].version = list[first].version}
        trustedOfFirst == {i \in ofFirst : list[i].release_status = TRUSTED}
    IN  IF trustedOfFirst # {} THEN list[MinOf(trustedOfFirst)]
        ELSE list[MinOf(ofFirst)]

C9_PickWithDuplicates ==
    (pc = "picked" /\ Remaining(prod_versions, target_version) # {}) =>
        next_candidate = ExpectedPick(prod_versions, target_version)

\* the list of the specification's example: 2.0.0 latest, 1.9.0 untagged and
\* RELEASED, 1.9.0 quarantined and TRUSTED_RELEASE; 2.0.0 is excluded
C9_Witness ==
    /\ pc = "picked"
    /\ target_version = V200
    /\ prod_versions =
           <<[version |-> V200, tag |-> LATEST_TAG, release_status |-> TRUSTED],
             [version |-> V190, tag |-> "", release_status |-> RELEASED],
             [version |-> V190, tag |-> QUARANTINE_TAG, release_status |-> TRUSTED]>>
    /\ next_candidate = [version |-> V190, tag |-> "", release_status |-> RELEASED]

----------------------------------------------------------------------------
(* get_prod_versions on its own: any raw listing.                          *)

MaxView == 3

Vv200 == <<"v", "2", ".", "0", ".", "0">>
V1100 == <<"1", ".", "1", "0", ".", "0">>

\* equal precedence under two spellings, a numeric order that is not the
\* lexical one, and two strings that do not parse
ViewVersions == {V200, Vv200, V190, V1100, VBad, <<>>}

\* the tag and the release status of a raw row
ViewTagStatus == {<<PyNone, "TRUSTED_RELEASE">>, <<LATEST_TAG, "released">>,
                  <<LATEST_TAG, "TRUSTED_RELEASE">>, <<PyNone, "DRAFT">>}

ViewRows == {[version |-> v, tag |-> ts[1], release_status |-> ts[2]] :
                 v \in ViewVersions, ts \in ViewTagStatus}

InitView ==
    /\ IdleRun
    /\ reg \in SeqsUpTo(ViewRows, MaxView)
    /\ reg0 = reg
    /\ prod_versions = <<>>
    /\ target_version = <<>>
    /\ next_candidate = None
    /\ given = <<>>
    /\ result = None
    /\ pc = "view"

ViewStep ==
    /\ pc = "view"
    /\ UNCHANGED <<run, given, result>>
    /\ prod_versions' = get_prod_versions(reg)
    /\ pc' = "viewed"
    /\ UNCHANGED <<reg, regProps, regStage, target_version, dry_run, next_candidate,
                   target, calls, out, queries, exit_code, error, reg0, regProps0>>

SpecView == InitView /\ [][ViewStep]_vars

(* C10: the output of get_prod_versions holds exactly the input records    *)
(* whose release status is, ignoring case, TRUSTED_RELEASE or RELEASED,    *)
(* each as often as in the input (with the tag and status normalised);     *)
(* the records whose version parses come first, in non-increasing SemVer   *)
(* precedence, and the records whose version does not parse follow them in *)
(* their relative input order.                                             *)

\* the record get_prod_versions makes of a raw row
NormOf(row) ==
    [version |-> row.version,
     tag |-> IF row.tag = PyNone THEN "" ELSE row.tag,
     release_status |-> Upper(row.release_status)]

CountIn(seq, x) == Cardinality({i \in 1..Len(seq) : seq[i] = x})

Parses(rec) == Parse(rec.version) # None

C10_ViewKeepsEligibleInOrder ==
    pc = "viewed" =>
        LET eligible == SelectSeq(reg, Eligible)
            wanted == [i \in 1..Len(eligible) |-> NormOf(eligible[i])]
            view == prod_versions
        IN  /\ Len(view) = Len(wanted)
            /\ \A i \in 1..Len(wanted) : CountIn(view, wanted[i]) = CountIn(wanted, wanted[i])
            /\ \A i \in 1..Len(view) : \A j \in (i + 1)..Len(view) :
                   /\ Parses(view[j]) => Parses(view[i])
                   /\ Parses(view[j]) =>
                          compare_semver(Parse(view[i].version), Parse(view[j].version)) >= 0
            /\ LET Fails(rec) == ~Parses(rec)
               IN  SelectSeq(view, Fails) = SelectSeq(wanted, Fails)

\* a listing of three rows: one dropped, the others reordered around a row
\* that does not parse
C10_Witness ==
    /\ pc = "viewed"
    /\ Len(reg) = 3
    /\ reg[1].version = VBad /\ reg[1].release_status = "released"
    /\ reg[2].version = V190 /\ reg[2].release_status = "DRAFT"
    /\ reg[3].version = V1100 /\ reg[3].tag = PyNone
    /\ Len(prod_versions) = 2
    /\ prod_versions[1] = [version |-> V1100, tag |-> "", release_status |-> TRUSTED]
    /\ prod_versions[2] = [version |-> VBad, tag |-> LATEST_TAG, release_status |-> RELEASED]

----------------------------------------------------------------------------
(* compare_semver on its own: any three parsed versions.                   *)

Core100 == <<"1", ".", "0", ".", "0">>
PreAlpha == <<"-", "a", "l", "p", "h", "a">>
PreAlpha1 == <<"-", "a", "l", "p", "h", "a", ".", "1">>
PreAlphaBeta == <<"-", "a", "l", "p", "h", "a", ".", "b", "e", "t", "a">>
PreBeta == <<"-", "b", "e", "t", "a">>
PreUpper == <<"-", "B", "e", "t", "a">>
Pre2 == <<"-", "2">>
Pre11 == <<"-", "1", "1">>
Pre1Arabic1 == <<"-", "1", ArabicOne>>
PreHyphen == <<"-", "-">>
BuildB == <<"+", "b">>

\* strings that parse: the fixture of the prerelease rules, numeric
\* identifiers whose numeric and lexical orders differ, one value under two
\* spellings, build metadata, a leading v, and cores that differ
CmpStrings == {Core100, Core100 \o PreAlpha, Core100 \o PreAlpha1,
               Core100 \o PreAlphaBeta, Core100 \o PreBeta, Core100 \o PreUpper,
               Core100 \o Pre2, Core100 \o Pre11, Core100 \o Pre1Arabic1,
               Core100 \o PreHyphen, Core100 \o BuildB,
               Core100 \o PreAlpha \o BuildB, <<"v">> \o Core100,
               V190, V1100, V200}

InitCmp ==
    /\ IdleRun
    /\ reg = <<>>
    /\ reg0 = <<>>
    /\ prod_versions = <<>>
    /\ target_version = <<>>
    /\ next_candidate = None
    /\ given \in [1..3 -> CmpStrings]
    /\ result = None
    /\ pc = "compare"

\* compare(x, y), compare(y, x), compare(y, z) and compare(x, z) of the three
\* parsed versions
CmpStep ==
    /\ pc = "compare"
    /\ LET x == Parse(given[1])
           y == Parse(given[2])
           z == Parse(given[3])
       IN  result' = [xy |-> compare_semver(x, y), yx |-> compare_semver(y, x),
                      yz |-> compare_semver(y, z), xz |-> compare_semver(x, z),
                      lt |-> SemVerLt(x, y)]
    /\ pc' = "compared"
    /\ UNCHANGED <<reg, regProps, regStage, target_version, dry_run, prod_versions,
                   target, next_candidate, calls, out, queries, exit_code, error,
                   reg0, regProps0, run, given>>

SpecCmp == InitCmp /\ [][CmpStep]_vars

SameCore(x, y) == x.major = y.major /\ x.minor = y.minor /\ x.patch = y.patch

(* C11: compare_semver is a strict total order on parsed versions:         *)
(* compare(x, y) = -compare(y, x); compare(x, y) < 0 and compare(y, z) < 0 *)
(* imply compare(x, z) < 0; and compare(x, y) = 0 exactly when major,      *)
(* minor, patch and the sequence of prerelease identifiers of x and y are  *)
(* equal.                                                                  *)

C11_Antisymmetric == pc = "compared" => result.xy = 0 - result.yx

C11_Transitive ==
    pc = "compared" => ((result.xy < 0 /\ result.yz < 0) => result.xz < 0)

C11_StrictTotalOrder ==
    /\ C11_Antisymmetric
    /\ C11_Transitive
    /\ pc = "compared" =>
           LET x == Parse(given[1])
               y == Parse(given[2])
           IN  result.xy = 0 <=> (SameCore(x, y) /\ x.prerelease = y.prerelease)

(* C12: for versions of equal major.minor.patch, a version without         *)
(* prerelease is greater than one with a prerelease; identifiers are       *)
(* compared pairwise, two all-digit identifiers numerically, an all-digit  *)
(* identifier below any other, two others lexically; when all compared     *)
(* identifiers are equal the shorter sequence is lower.  Hence             *)
(* 1.0.0-alpha < 1.0.0-alpha.1 < 1.0.0-beta < 1.0.0.                       *)

\* identifier a is below identifier b
IdLess(a, b) ==
    IF IsDigit(a) /\ IsDigit(b) THEN IntOf(a) < IntOf(b)
    ELSE IF IsDigit(a) THEN TRUE
    ELSE IF IsDigit(b) THEN FALSE
    ELSE StrLess(a, b)

\* neither identifier is below the other
IdSame(a, b) == ~IdLess(a, b) /\ ~IdLess(b, a)

\* the prerelease ap is lower than the prerelease bp, both non-empty
PreLess(ap, bp) ==
    \/ \E k \in 1..Min(Len(ap), Len(bp)) :
           /\ \A j \in 1..(k - 1) : IdSame(ap[j], bp[j])
           /\ IdLess(ap[k], bp[k])
    \/ /\ \A j \in 1..Min(Len(ap), Len(bp)) : IdSame(ap[j], bp[j])
       /\ Len(ap) < Len(bp)

\* the precedence the rules give two versions of equal major.minor.patch
RulePrecedence(x, y) ==
    IF x.prerelease = <<>> /\ y.prerelease = <<>> THEN 0
    ELSE IF x.prerelease = <<>> THEN 1
    ELSE IF y.prerelease = <<>> THEN -1
    ELSE IF PreLess(x.prerelease, y.prerelease) THEN -1
    ELSE IF PreLess(y.prerelease, x.prerelease) THEN 1
    ELSE 0

C12_PrereleasePrecedence ==
    pc = "compared" =>
        LET x == Parse(given[1])
            y == Parse(given[2])
            z == Parse(given[3])
        IN  /\ SameCore(x, y) => result.xy = RulePrecedence(x, y)
            /\ result.lt <=> result.xy < 0
            /\ (given = <<Core100 \o PreAlpha, Core100 \o PreAlpha1, Core100 \o PreBeta>>
                \/ given = <<Core100 \o PreAlpha1, Core100 \o PreBeta, Core100>>)
                   => result.xy = -1 /\ result.yz = -1 /\ result.xz = -1 /\ result.yx = 1

\* the upper three versions of the fixture, and a numeric pair whose lexical
\* order is the other way round
C12_Witness ==
    /\ pc = "compared"
    /\ given = <<Core100 \o Pre2, Core100 \o Pre11, Core100 \o PreAlpha>>
    /\ result.xy = -1 /\ result.yz = -1

----------------------------------------------------------------------------
(* sort_versions_by_semver_desc on its own: any list of strings.           *)

MaxSort == 4

V100 == Core100
V150 == <<"1", ".", "5", ".", "0">>
Vv100 == <<"v">> \o Core100
BadVersion == <<"b", "a", "d", "-", "v", "e", "r", "s", "i", "o", "n">>

\* the strings of the fixture, one precedence under two spellings, and a
\* second string that does not parse
SortStrings == {V100, V200, V150, BadVersion, Vv100, VBad}

InitSort ==
    /\ IdleRun
    /\ reg = <<>>
    /\ reg0 = <<>>
    /\ prod_versions = <<>>
    /\ target_version = <<>>
    /\ next_candidate = None
    /\ given \in SeqsUpTo(SortStrings, MaxSort)
    /\ result = None
    /\ pc = "sort"

SortStep ==
    /\ pc = "sort"
    /\ result' = sort_versions_by_semver_desc(given)
    /\ pc' = "sorted"
    /\ UNCHANGED <<reg, regProps, regStage, target_version, dry_run, prod_versions,
                   target, next_candidate, calls, out, queries, exit_code, error,
                   reg0, regProps0, run, given>>

SpecSort == InitSort /\ [][SortStep]_vars

(* C13: the result of sort_versions_by_semver_desc holds exactly the input *)
(* strings that parse, each as often as in the input, the others being     *)
(* dropped, and every element has a precedence greater than or equal to    *)
(* that of the element after it; [1.0.0, 2.0.0, 1.5.0, bad-version] yields *)
(* [2.0.0, 1.5.0, 1.0.0].                                                  *)

C13_SortKeepsParseableDescending ==
    pc = "sorted" =>
        /\ \A v \in SortStrings :
               CountIn(result, v) = IF Parse(v) # None THEN CountIn(given, v) ELSE 0
        /\ Len(result) = Cardinality({i \in 1..Len(given) : Parse(given[i]) # None})
        /\ \A i \in 1..(Len(result) - 1) :
               compare_semver(Parse(result[i]), Parse(result[i + 1])) >= 0
        /\ given = <<V100, V200, V150, BadVersion>> => result = <<V200, V150, V100>>

\* the list of the fixture
C13_Witness ==
    /\ pc = "sorted"
    /\ given = <<V100, V200, V150, BadVersion>>
    /\ result = <<V200, V150, V100>>

----------------------------------------------------------------------------
(* SemVer.parse on its own: strings put together from a prefix, a core, a  *)
(* prerelease, build metadata and a suffix, well-formed or not.            *)

ParsePrefixes == {<<>>, <<"v">>, <<" ">>, <<"v", "v">>, <<"V">>}

ParseCores == {<<"1", ".", "2", ".", "3">>, <<"1", ".", "2">>,
               <<"0", "1", ".", "2", ".", "3">>, <<"0", ".", "0", ".", "0">>,
               <<"1", "0", ".", "2", "0", ".", "3", "0">>,
               <<"1", ArabicOne, ".", "0", ".", "0">>, V200,
               <<"1", ".", "2", ".", "3", ".", "4">>, <<"1", ".", ".", "3">>}

ParsePrereleases == {<<>>, PreAlpha1, <<"-", "1", "a">>, <<"-", "0", "a">>,
                     <<"-", "0", "1">>, <<"-", "0">>, PreHyphen,
                     <<"-", "a", ".", ".", "b">>, <<"-">>,
                     <<"-", "a", ".", "1", "0">>}

ParseBuilds == {<<>>, <<"+", "b", ".", "1">>, <<"+">>, <<"+", "0", "0", "1">>,
                <<"+", "a", "+", "b">>}

ParseSuffixes == {<<>>, <<" ">>}

InitParse ==
    /\ IdleRun
    /\ reg = <<>>
    /\ reg0 = <<>>
    /\ prod_versions = <<>>
    /\ target_version = <<>>
    /\ next_candidate = None
    /\ \E p \in ParsePrefixes, c \in ParseCores, pre \in ParsePrereleases,
          b \in ParseBuilds, e \in ParseSuffixes :
           given = <<p \o c \o pre \o b \o e>>
    /\ result = None
    /\ pc = "parse"

ParseStep ==
    /\ pc = "parse"
    /\ result' = Parse(given[1])
    /\ pc' = "parsed"
    /\ UNCHANGED <<reg, regProps, regStage, target_version, dry_run, prod_versions,
                   target, next_candidate, calls, out, queries, exit_code, error,
                   reg0, regProps0, run, given>>

SpecParse == InitParse /\ [][ParseStep]_vars

(* C17: SemVer.parse returns a version for exactly the strings of the      *)
(* stated grammar and none for every other string: an optional leading v;  *)
(* three dot-separated non-negative integers without superfluous leading   *)
(* zeros; an optional prerelease of dot-separated identifiers, each a      *)
(* non-empty mix of alphanumerics and hyphens of which only a purely       *)
(* numeric one may not have a leading zero (1a and 0a are identifiers);    *)
(* optional build metadata.  1.2 yields none and v2.0.0 parses to 2.0.0.   *)

\* the first position of character c in s, Len(s) + 1 when there is none
FirstAt(s, c) ==
    IF \E i \in 1..Len(s) : s[i] = c
    THEN MinOf({i \in 1..Len(s) : s[i] = c})
    ELSE Len(s) + 1

\* a non-negative integer without superfluous leading zeros
GrammarNumber(t) ==
    /\ t # <<>>
    /\ \A i \in 1..Len(t) : t[i] \in Digits
    /\ Len(t) > 1 => t[1] # "0"

\* alphanumerics and hyphens, not empty
GrammarSegment(t) == t # <<>> /\ \A i \in 1..Len(t) : t[i] \in IdentChars

GrammarIdentifier(t) ==
    /\ GrammarSegment(t)
    /\ (\A i \in 1..Len(t) : t[i] \in Digits) => GrammarNumber(t)

InGrammar(s) ==
    LET body == IF s # <<>> /\ s[1] = "v" THEN Tail(s) ELSE s
        plus == FirstAt(body, "+")
        main == SubSeq(body, 1, plus - 1)
        hyphen == FirstAt(main, "-")
        core == SplitDots(SubSeq(main, 1, hyphen - 1))
        pre == SplitDots(SubSeq(main, hyphen + 1, Len(main)))
        build == SplitDots(SubSeq(body, plus + 1, Len(body)))
    IN  /\ Len(core) = 3
        /\ \A i \in 1..Len(core) : GrammarNumber(core[i])
        /\ hyphen <= Len(main) => \A i \in 1..Len(pre) : GrammarIdentifier(pre[i])
        /\ plus <= Len(body) => \A i \in 1..Len(build) : GrammarSegment(build[i])

C17_ParseAcceptsExactlyGrammar ==
    pc = "parsed" =>
        /\ result # None <=> InGrammar(given[1])
        /\ result # None => result.original = given[1]
        /\ given[1] = VBad => result = None
        /\ given[1] = Vv200 =>
               /\ result # None
               /\ result.major = 2 /\ result.minor = 0 /\ result.patch = 0
               /\ result.prerelease = <<>>

----------------------------------------------------------------------------
(* The successor of rollback_in_prod on its own: the view of a raw         *)
(* listing, the target's record, and the selection when it held latest.    *)

MaxBest == 3

BestVersions == {V200, Vv200, V190, V1100, VBad}

BestTargets == {V200, VBad}

\* the tag and the release status of a raw row
BestTagStatus == {<<LATEST_TAG, "TRUSTED_RELEASE">>, <<PyNone, "released">>,
                  <<QUARANTINE_TAG, "TRUSTED_RELEASE">>, <<"", "DRAFT">>}

BestRows == {[version |-> v, tag |-> ts[1], release_status |-> ts[2]] :
                 v \in BestVersions, ts \in BestTagStatus}

InitBest ==
    /\ IdleRun
    /\ reg \in SeqsUpTo(BestRows, MaxBest)
    /\ reg0 = reg
    /\ prod_versions = <<>>
    /\ target_version \in BestTargets
    /\ next_candidate = None
    /\ given = <<>>
    /\ result = None
    /\ pc = "select"

\* prod_versions, by_version.get(target_version), had_latest and the call of
\* pick_next_latest, without the calls in between
BestStep ==
    /\ pc = "select"
    /\ prod_versions' = get_prod_versions(reg)
    /\ target' = ByVersionGet(prod_versions', target_version)
    /\ next_candidate' = IF target' # None /\ target'.tag = LATEST_TAG
                         THEN pick_next_latest(prod_versions', target_version)
                         ELSE None
    /\ pc' = "selected"
    /\ UNCHANGED <<reg, regProps, regStage, target_version, dry_run, calls, out,
                   queries, exit_code, error, reg0, regProps0, run, given, result>>

SpecBest == InitBest /\ [][BestStep]_vars

(* C21: when the target held latest and a successor is chosen from the     *)
(* view of get_prod_versions, the successor's version has a precedence     *)
(* greater than or equal to that of every eligible record that is not of   *)
(* the target version, is not tagged quarantine and has a version that     *)
(* parses; a record whose version does not parse is chosen only when no    *)
(* such record remains.                                                    *)

\* the rows of the listing that are eligible, of another version than the
\* target, not quarantined and of a version that parses
ParseableCandidates ==
    {i \in 1..Len(reg) :
        /\ Eligible(reg[i])
        /\ reg[i].version # target_version
        /\ reg[i].tag # QUARANTINE_TAG
        /\ Parse(reg[i].version) # None}

SuccessorChosen ==
    /\ pc = "selected"
    /\ target # None
    /\ target.tag = LATEST_TAG
    /\ next_candidate # None

C21_SuccessorIsBestRemaining ==
    SuccessorChosen =>
        /\ next_candidate.version # target_version
        /\ next_candidate.tag # QUARANTINE_TAG
        /\ ParseableCandidates # {} =>
               /\ Parse(next_candidate.version) # None
               /\ \A i \in ParseableCandidates :
                      compare_semver(Parse(next_candidate.version),
                                     Parse(reg[i].version)) >= 0
        /\ Parse(next_candidate.version) = None => ParseableCandidates = {}

\* 1.9.0 is listed before 1.10.0 and is the greater string, 1.10.0 the
\* greater version
C21_Witness ==
    /\ SuccessorChosen
    /\ target_version = V200
    /\ Len(reg) = 3
    /\ reg[1].version = V190 /\ reg[1].tag = PyNone
    /\ reg[2].version = V200
    /\ reg[3].version = V1100 /\ reg[3].tag = PyNone
    /\ next_candidate.version = V1100

====
